---------------------------- MODULE Spec2Model ----------------------------
(* A model of the nationbuilder-py client: the shared request /           *)
(* authorization / validation layer (nb_api.py), the resource modules     *)
(* built on it (pages.py, blog.py, people.py) and the command handlers    *)
(* of the entry point (nationbuilder.py).                                 *)
(*                                                                        *)
(* The HTTP server is the environment: every request the client issues    *)
(* is answered by a response whose status code and body are chosen        *)
(* nondeterministically.  The client is single-threaded: one call is in   *)
(* progress at a time, and `call` holds the call in progress or the       *)
(* outcome of the last one.                                               *)
EXTENDS Integers, Sequences, FiniteSets, TLC

(* ------------------------------ bounds ------------------------------- *)

\* largest total_pages a first page reports
MaxPages == 3
\* largest number of records in one page's results
MaxLen == 2
\* the status codes the validator is applied to in SpecValidate
MinStatus == 100
MaxStatus == 599

(* ----------------------------- constants ----------------------------- *)

\* Python's None, where the model holds a string
None == "None"
\* self.session = None (nb_api.py:124); established sessions are 1, 2, ...
NoSession == 0
\* the client was built by NationBuilder(slug, api_key): api_key is a token
\* or None (os.getenv of an unset variable)
Tokens == {None, "T"}
\* the resource modules of the entry point whose source is present; each is
\* its own NationBuilderApi instance (nationbuilder.py:49-53)
Modules == {"blog_posts", "pages", "people"}
\* status codes the server answers with inside the resource methods
Statuses == {199, 200, 201, 299, 300, 400, 404, 500}
\* the `code` field of a 400 body
Codes == {"no_matches", "other"}
\* the payloads a caller passes to a creation call
Payloads == {1, 2}
\* a JSON request body: `value` as it is (key None) or wrapped as {key: value}
Json(key, value) == [key |-> key, value |-> value]
\* a request sent without json= or data=
NoBody == Json(None, 0)
\* the keyword argument params= of a request: absent, {"limit": limit}
\* (pages.py:33,38, blog.py:10,26,31) or the caller's dict (nb_api.py:127)
NoParams == None
\* the fields of a counted-pagination JSON body, in document order
BodyKeys == <<"total_pages", "results">>

VARIABLES
    creds,          \* where the credentials came from, and the slug and key read
    nb,             \* what the factory gave: "client", None, or "TypeError"
    ACCESS_TOKEN,   \* self.ACCESS_TOKEN, the same api_key in every module
    session,        \* module -> self.session of that module's instance
    constructed,    \* module -> number of AuthorizedSession(...) constructions
    call,           \* the call in progress, or the last call and its outcome
    status_in,      \* SpecValidate: the status code handed to _check_response
    outcome         \* SpecValidate: what _check_response did with it

vars == <<creds, nb, ACCESS_TOKEN, session, constructed, call, status_in, outcome>>

(* ------------------- nb_api.py: validation, session ------------------- *)

\* nb_api.py:140-147.  error_map.get(status) or NBResponseError
_raise_error(status_code) ==
    IF status_code = 404 THEN "NBNotFoundError"
    ELSE IF status_code = 400 THEN "NBBadRequestError"
    ELSE "NBResponseError"

\* the classes _raise_error raises: NBResponseError and its subclasses
\* (nb_api.py:162-192)
ErrorClasses == {"NBNotFoundError", "NBBadRequestError", "NBResponseError"}

\* nb_api.py:172-179.  NBResponseError.__init__(msg, header, body, url)
NBResponseError(header, body, url) ==
    [header |-> header, body |-> body, url |-> url]

\* _check_response with the lower limit of the success range off by one
\* (status_code <= 200): the variant C1 must tell from the code
_check_response_low_limit(status_code) ==
    IF status_code <= 200 \/ status_code > 299
    THEN _raise_error(status_code)
    ELSE None

\* nb_api.py:131-138.  The exception raised, or None when it returns.
_check_response(status_code) ==
    IF status_code < 200 \/ status_code > 299
    THEN _raise_error(status_code)
    ELSE None

\* requests.Response.ok, used by pages.py:45 and blog.py:18,41:
\* raise_for_status() raises for 400 <= status < 600 only.
ok(status_code) == ~(400 <= status_code /\ status_code < 600)

\* _authorize without its `assert self.ACCESS_TOKEN is not None`: the
\* variant C12 must tell from the code
_authorize_unasserted(s, token, n) ==
    IF s # NoSession
    THEN [session |-> s, constructed |-> n, raised |-> None]
    ELSE [session |-> n + 1, constructed |-> n + 1, raised |-> None]

\* _authorize without its `if self.session is not None: return`: every
\* call constructs a session.  The variant C3 must tell from the code.
_authorize_unguarded(s, token, n) ==
    IF token = None
    THEN [session |-> NoSession, constructed |-> n, raised |-> "AssertionError"]
    ELSE [session |-> n + 1, constructed |-> n + 1, raised |-> None]

\* nb_api.py:149-159.  `s` is self.session when _authorize is entered, `n`
\* the number of sessions this instance has constructed so far.
_authorize(s, token, n) ==
    IF s # NoSession
    THEN [session |-> s, constructed |-> n, raised |-> None]
    ELSE IF token = None
    THEN [session |-> NoSession, constructed |-> n, raised |-> "AssertionError"]
    ELSE [session |-> n + 1, constructed |-> n + 1, raised |-> None]

\* a method that does not call _authorize leaves the session as it is
NoAuthorize(s, n) == [session |-> s, constructed |-> n, raised |-> None]


(* --------------------- requests, responses, calls --------------------- *)

\* a person / page record of page p, and the i-th key of a JSON body
Record(p, i) == [kind |-> "record", page |-> p, i |-> i]
Key(j) == [kind |-> BodyKeys[j], page |-> 0, i |-> j]
\* the `results` list of page p when it holds n records
Results(p, n) == [i \in 1..n |-> Record(p, i)]
\* iterating a dict yields its keys: list(body)
Keys == [j \in 1..Len(BodyKeys) |-> Key(j)]

\* one HTTP response: status code and the fields of its JSON body
Response(s, code, tp, nxt, res) ==
    [status_code |-> s, code |-> code, total_pages |-> tp, next |-> nxt,
     results |-> res]

\* responses to single-resource requests
SimpleResponses == {Response(s, None, 0, None, <<>>) : s \in Statuses}
\* responses to the email match request: a 400 body carries a code
EmailResponses ==
    {Response(s, None, 0, None, <<>>) : s \in Statuses \ {400}}
    \cup {Response(400, c, 0, None, <<>>) : c \in Codes}
\* status codes of the page requests of the paginated operations
PageStatuses == {200, 404, 500}
\* responses to the request for page p of a counted pagination, whose
\* first page reported tp pages (for p = 1, tp is what it reports)
CountedResponses(p, tp) ==
    {Response(s, None, tp, None, Results(p, n)) :
        s \in {x \in PageStatuses : _check_response(x) = None}, n \in 0..MaxLen}
    \cup {Response(s, None, 0, None, <<>>) :
        s \in {x \in PageStatuses : _check_response(x) # None}}
\* responses to a page request of a link-following pagination
LinkResponses ==
    {Response(s, None, 0, nxt, Results(1, n)) :
        s \in {x \in PageStatuses : _check_response(x) = None},
        nxt \in {None, "next_url"}, n \in 0..MaxLen}
    \cup {Response(s, None, 0, None, <<>>) :
        s \in {x \in PageStatuses : _check_response(x) # None}}

\* self.session.get/post/delete(url, params=..., json=...) on session s;
\* path and page are the url the method built from its template
Request(verb, path, page, params, body, s) ==
    [verb |-> verb, path |-> path, page |-> page, params |-> params,
     body |-> body, session |-> s]

\* a URL: the path, the page number in it (0: none) and the query string
\* that params= adds to it (None: nothing added)
Url(path, page, query) == [path |-> path, page |-> page, query |-> query]
NoUrl == Url(None, 0, None)
\* the `url` variable of the method, the first argument of session.<verb>
UrlArgument(req) == Url(req.path, req.page, None)
\* the URL the request goes out with, which is response.url: requests
\* encodes params= into the query string of the url
PreparedUrl(req) == Url(req.path, req.page, req.params)

\* response.headers and response.text of the k-th response of a call
Part(name, k) == [part |-> name, of |-> k]
\* what an exception that is no NBResponseError carries
NoPayload == NBResponseError(Part(None, 0), Part(None, 0), NoUrl)

\* no call made yet
Call0 ==
    [method |-> None, module |-> None, pc |-> "idle", raised |-> None,
     ret |-> None, pre |-> -1, requests |-> <<>>, responses |-> <<>>,
     items |-> <<>>, page |-> <<>>, total_pages |-> 0, page_no |-> 0,
     idx |-> 0, dest |-> None, hsession |-> NoSession, arg |-> 0,
     err |-> NoPayload]

\* a call of `meth` on module `mod` begins
Begin(mod, meth) ==
    [Call0 EXCEPT !.method = meth, !.module = mod, !.pc = "run"]

\* the methods that hand response.url to _check_response (blog.py:11, 17,
\* 27, 40); the others hand it their `url` variable
ResponseUrlMethods ==
    {"get_blogs", "create_blog", "get_blog_posts", "create_blog_post"}

\* the url argument of the method's self._check_response(response, .., url)
CheckedUrl(c) ==
    IF c.method \in ResponseUrlMethods
    THEN c.responses[Len(c.responses)].url
    ELSE UrlArgument(c.requests[Len(c.requests)])

\* the call ends with exception e.  For the classes of _raise_error this is
\* nb_api.py:147: raise err(msg, response.headers, response.text, url)
Raise(c, e) ==
    [c EXCEPT !.pc = "raised", !.raised = e,
              !.err = IF e \in ErrorClasses
                      THEN LET r == c.responses[Len(c.responses)]
                           IN  NBResponseError(r.headers, r.text, CheckedUrl(c))
                      ELSE NoPayload]
Return(c, v) == [c EXCEPT !.pc = "returned", !.ret = v]

\* the call issues `req` and receives `resp`, its k-th response, which
\* carries its own headers and text and the URL the request went out with
Exchange(c, req, resp) ==
    LET k == Len(c.responses) + 1
    IN  [c EXCEPT !.requests = Append(@, req),
                  !.responses = Append(@,
                      resp @@ [headers |-> Part("headers", k),
                               text |-> Part("text", k),
                               url |-> PreparedUrl(req)])]

\* self._check_response(response, ...) followed by `return v`
Checked(c, resp, v) ==
    LET e == _check_response(resp.status_code)
    IN  IF e # None THEN Raise(c, e) ELSE Return(c, v)

\* there is a client and no call is executing: a new call may be made
Idle == nb = "client" /\ call.pc # "run"

(* ------------- what each method does with its response --------------- *)

\* pages.py:45-48: if response.ok: return response.json() else: return None
OkOrNone(c, resp) ==
    Return(c, IF ok(resp.status_code) THEN "json" ELSE None)

\* blog.py:17-21 and 40-44: _check_response, then the response.ok test
CheckedOkOrNone(c, resp) ==
    LET e == _check_response(resp.status_code)
    IN  IF e # None THEN Raise(c, e) ELSE OkOrNone(c, resp)

\* the email lookup with the generic validation applied first: the variant
\* C5 must tell from the code
EmailLookup_generic_first(c, resp) ==
    LET e == _check_response(resp.status_code)
    IN  IF e # None THEN Raise(c, e)
        ELSE Return(c, IF resp.status_code = 200 THEN "json" ELSE None)

\* people.py:212-221: the branches on response.status_code
EmailLookup(c, resp) ==
    IF resp.status_code = 400
    THEN IF resp.code = "no_matches"
         THEN Return(c, None)
         ELSE Checked(c, resp, None)
    ELSE IF resp.status_code = 200
    THEN Return(c, "json")
    ELSE Checked(c, resp, None)

\* the loop with the short-circuit on an empty page: the variant C7 must
\* tell from the code
Loop_short_circuit(c) ==
    IF c.page_no <= c.total_pages
       /\ c.responses[Len(c.responses)].results # <<>>
    THEN c ELSE Return(c, "list")

\* `for page_no in range(2, total_pages + 1)`: the loop goes on to request
\* page c.page_no, or is exhausted and the method returns the list
Loop(c) ==
    IF c.page_no <= c.total_pages THEN c ELSE Return(c, "list")

\* people.py:193-195 and 324-326: the first page
\*     total_pages = first_page['total_pages']; result = first_page['results']
FirstPage(c, resp) ==
    LET e == _check_response(resp.status_code)
    IN  IF e # None THEN Raise(c, e)
        ELSE Loop([c EXCEPT !.total_pages = resp.total_pages,
                            !.items = resp.results, !.page_no = 2])

\* `result = ...` in place of `result += ...`: the variant C6 must tell
\* from the code
SearchPage_overwrite(c, resp) ==
    LET e == _check_response(resp.status_code)
    IN  IF e # None THEN Raise(c, e)
        ELSE Loop([c EXCEPT !.items = resp.results, !.page_no = @ + 1])

\* people.py:197   result += get_search_page(page_no)['results']
SearchPage(c, resp) ==
    LET e == _check_response(resp.status_code)
    IN  IF e # None THEN Raise(c, e)
        ELSE Loop([c EXCEPT !.items = @ \o resp.results, !.page_no = @ + 1])

\* people.py:328   result += get_nearby_page(p)
\* list += dict extends the list with the keys of the dict
NearbyPage(c, resp) ==
    LET e == _check_response(resp.status_code)
    IN  IF e # None THEN Raise(c, e)
        ELSE Loop([c EXCEPT !.items = @ \o Keys, !.page_no = @ + 1])

\* people.py:292-295: the generator runs on from the head of the inner
\* loop until it yields a record (suspended), needs the next page (run) or
\* the outer range is exhausted (done, StopIteration).
\*     for current_page in range(2, total_pages + 1):
\*         for person in page['results']: yield person
\*         page = get_people_page(current_page)
\* c.page_no is current_page, c.page is page['results'], c.idx the number
\* of records of it yielded so far, c.items the records yielded in all.
\* Advance_prefetch is the eager variant C15 must tell from the code: it
\* goes for the next page while the last record of this one is still to
\* be yielded.
Advance_prefetch(c) ==
    IF c.page_no > c.total_pages THEN [c EXCEPT !.pc = "done"]
    ELSE IF c.idx < Len(c.page) - 1
    THEN [c EXCEPT !.pc = "suspended", !.idx = @ + 1,
                   !.items = Append(@, c.page[c.idx + 1])]
    ELSE [c EXCEPT !.pc = "run"]

Advance(c) ==
    IF c.page_no > c.total_pages THEN [c EXCEPT !.pc = "done"]
    ELSE IF c.idx < Len(c.page)
    THEN [c EXCEPT !.pc = "suspended", !.idx = @ + 1,
                   !.items = Append(@, c.page[c.idx + 1])]
    ELSE [c EXCEPT !.pc = "run"]

\* people.py:289-290   page = get_people_page(1); total_pages = ...
PeopleFirstPage(c, resp) ==
    LET e == _check_response(resp.status_code)
    IN  IF e # None THEN Raise(c, e)
        ELSE Advance([c EXCEPT !.total_pages = resp.total_pages,
                               !.page = resp.results, !.idx = 0, !.page_no = 2])

\* people.py:295   page = get_people_page(current_page), then the next
\* iteration of the outer loop
PeopleNextPage(c, resp) ==
    LET e == _check_response(resp.status_code)
    IN  IF e # None THEN Raise(c, e)
        ELSE Advance([c EXCEPT !.page = resp.results, !.idx = 0,
                               !.page_no = @ + 1])

\* the statements that follow the request in the method, by name
Handle(how, c, resp) ==
    CASE how = "check_json" -> Checked(c, resp, "json")
      [] how = "check_none" -> Checked(c, resp, None)
      [] how = "ok_or_none" -> OkOrNone(c, resp)
      [] how = "check_ok_or_none" -> CheckedOkOrNone(c, resp)
      [] how = "email" -> EmailLookup(c, resp)
      [] how = "first_page" -> FirstPage(c, resp)
      [] how = "search_page" -> SearchPage(c, resp)
      [] how = "nearby_page" -> NearbyPage(c, resp)
      [] how = "people_first_page" -> PeopleFirstPage(c, resp)
      [] how = "people_next_page" -> PeopleNextPage(c, resp)

\* The request step shared by the methods of module `mod`, taken by the
\* call `c`:
\*     [self._authorize()]
\*     response = self.session.<verb>(url, ...)
\*     <the statements named by `how`>
\* self.session.<verb> on a session that is None is an
\* AttributeError, and no request is sent.  c.pre records self.session on
\* entry to _authorize (-1 when the method does not call it).
Issue(c, mod, auth, verb, path, page, params, body, resp, how) ==
    LET a == IF auth
             THEN _authorize(session[mod], ACCESS_TOKEN, constructed[mod])
             ELSE NoAuthorize(session[mod], constructed[mod])
        c1 == [c EXCEPT !.pre = IF auth THEN session[mod] ELSE -1]
        sent == Exchange(c1, Request(verb, path, page, params, body, a.session),
                         resp)
    IN  /\ session' = [session EXCEPT ![mod] = a.session]
        /\ constructed' = [constructed EXCEPT ![mod] = a.constructed]
        /\ call' = IF a.raised # None THEN Raise(c1, a.raised)
                   ELSE IF a.session = NoSession THEN Raise(c1, "AttributeError")
                   ELSE Handle(how, sent, resp)
        /\ UNCHANGED <<creds, nb, ACCESS_TOKEN, status_in, outcome>>

(* ------------------------------ nb_api.py ----------------------------- *)

\* nb_api.py:126-129, a method of every module's instance
get_response_from_authenticated_call ==
    /\ Idle
    /\ \E mod \in Modules, resp \in SimpleResponses :
        Issue(Begin(mod, "get_response_from_authenticated_call"), mod, FALSE,
              "GET", "url", 0, "params", NoBody, resp,
              "check_json")

(* ------------------------------ pages.py ------------------------------ *)

\* pages.py:23-28
get_sites ==
    /\ Idle
    /\ \E resp \in SimpleResponses :
        Issue(Begin("pages", "get_sites"), "pages", TRUE,
              "GET", "sites", 0, NoParams, NoBody, resp,
              "check_json")

\* pages.py:30-35
get_pages ==
    /\ Idle
    /\ \E resp \in SimpleResponses :
        Issue(Begin("pages", "get_pages"), "pages", TRUE,
              "GET", "basic_pages", 0, "limit", NoBody, resp,
              "check_json")

\* pages.py:37-39: no _authorize, and no return statement
get_next_pages ==
    /\ Idle
    /\ \E resp \in SimpleResponses :
        Issue(Begin("pages", "get_next_pages"), "pages", FALSE,
              "GET", "next_url", 0, "limit", NoBody, resp,
              "check_none")

\* pages.py:41-48
create_page ==
    /\ Idle
    /\ \E resp \in SimpleResponses, page \in Payloads :
        Issue([Begin("pages", "create_page") EXCEPT !.arg = page],
              "pages", TRUE, "POST", "basic_pages", 0, NoParams,
              Json("basic_page", page), resp, "ok_or_none")

(* ------------------------------- blog.py ------------------------------ *)

\* blog.py:7-12
get_blogs ==
    /\ Idle
    /\ \E resp \in SimpleResponses :
        Issue(Begin("blog_posts", "get_blogs"), "blog_posts", TRUE,
              "GET", "blogs", 0, "limit", NoBody, resp,
              "check_json")

\* blog.py:14-21
create_blog ==
    /\ Idle
    /\ \E resp \in SimpleResponses, blog \in Payloads :
        Issue([Begin("blog_posts", "create_blog") EXCEPT !.arg = blog],
              "blog_posts", TRUE, "POST", "blogs", 0, NoParams,
              Json("blog", blog), resp, "check_ok_or_none")

\* blog.py:23-28
get_blog_posts ==
    /\ Idle
    /\ \E resp \in SimpleResponses :
        Issue(Begin("blog_posts", "get_blog_posts"), "blog_posts", TRUE,
              "GET", "posts", 0, "limit", NoBody, resp,
              "check_json")

\* blog.py:30-33: no _authorize
get_next_blog_posts ==
    /\ Idle
    /\ \E resp \in SimpleResponses :
        Issue(Begin("blog_posts", "get_next_blog_posts"), "blog_posts", FALSE,
              "GET", "next_url", 0, "limit", NoBody, resp,
              "check_json")

\* blog.py:35-44
create_blog_post ==
    /\ Idle
    /\ \E resp \in SimpleResponses, blog_post \in Payloads :
        Issue([Begin("blog_posts", "create_blog_post") EXCEPT !.arg = blog_post],
              "blog_posts", TRUE, "POST", "posts", 0, NoParams,
              Json("blog_post", blog_post), resp, "check_ok_or_none")

(* --------------------- people.py: single requests --------------------- *)

\* people.py:25-42
get_person ==
    /\ Idle
    /\ \E resp \in SimpleResponses :
        Issue(Begin("people", "get_person"), "people", TRUE,
              "GET", "people/id", 0, NoParams, NoBody, resp,
              "check_json")

\* people.py:77-106: session.post(url, headers=...) sends no body
create_person ==
    /\ Idle
    /\ \E resp \in SimpleResponses, person_body \in Payloads :
        Issue([Begin("people", "create_person") EXCEPT !.arg = person_body],
              "people", TRUE, "POST", "people", 0, NoParams,
              NoBody, resp, "check_json")

\* people.py:141-162
match_person ==
    /\ Idle
    /\ \E resp \in SimpleResponses :
        Issue(Begin("people", "match_person"), "people", TRUE,
              "GET", "people/match", 0, NoParams, NoBody, resp,
              "check_json")

\* people.py:201-221
get_person_by_email ==
    /\ Idle
    /\ \E resp \in EmailResponses :
        Issue(Begin("people", "get_person_by_email"), "people", TRUE,
              "GET", "people/match?email", 0, NoParams, NoBody, resp,
              "email")

\* people.py:248-261
delete_person ==
    /\ Idle
    /\ \E resp \in SimpleResponses :
        Issue(Begin("people", "delete_person"), "people", TRUE,
              "DELETE", "people/id", 0, NoParams, NoBody, resp,
              "check_none")

\* people.py:332-338
me ==
    /\ Idle
    /\ \E resp \in SimpleResponses :
        Issue(Begin("people", "me"), "people", TRUE,
              "GET", "people/me", 0, NoParams, NoBody, resp,
              "check_json")

(* -------------------- people.py: counted pagination ------------------- *)

\* people.py:164-195: up to and including the first page
search ==
    /\ Idle
    /\ \E tp \in 0..MaxPages : \E resp \in CountedResponses(1, tp) :
        Issue(Begin("people", "search"), "people", TRUE,
              "GET", "people/search", 1, NoParams, NoBody, resp,
              "first_page")

\* people.py:196-199: one iteration of the loop (get_search_page, 187-191)
search_next_page ==
    /\ call.pc = "run" /\ call.method = "search"
    /\ \E resp \in CountedResponses(call.page_no, call.total_pages) :
        Issue(call, "people", FALSE, "GET", "people/search",
              call.page_no, NoParams, NoBody, resp, "search_page")

\* people.py:297-326: up to and including the first page
get_nearby ==
    /\ Idle
    /\ \E tp \in 0..MaxPages : \E resp \in CountedResponses(1, tp) :
        Issue(Begin("people", "get_nearby"), "people", TRUE,
              "GET", "people/nearby", 1, NoParams, NoBody, resp,
              "first_page")

\* people.py:327-330: one iteration of the loop (get_nearby_page, 317-322)
get_nearby_next_page ==
    /\ call.pc = "run" /\ call.method = "get_nearby"
    /\ \E resp \in CountedResponses(call.page_no, call.total_pages) :
        Issue(call, "people", FALSE, "GET", "people/nearby",
              call.page_no, NoParams, NoBody, resp, "nearby_page")

(* ------------------- people.py: the people generator ------------------ *)

\* people.py:263: calling the generator function runs none of its body
get_people_iter ==
    /\ Idle
    /\ call' = [Begin("people", "get_people_iter") EXCEPT !.pc = "created"]
    /\ UNCHANGED <<creds, nb, ACCESS_TOKEN, session, constructed, status_in, outcome>>

\* the consumer asks for the first record: people.py:280-290
people_iter_first ==
    /\ call.pc = "created" /\ call.method = "get_people_iter"
    /\ \E tp \in 0..MaxPages : \E resp \in CountedResponses(1, tp) :
        Issue(call, "people", TRUE, "GET", "people",
              1, NoParams, NoBody, resp, "people_first_page")

\* the consumer asks for one more record: the generator resumes after its
\* yield, people.py:293-294
people_iter_next ==
    /\ call.pc = "suspended" /\ call.method = "get_people_iter"
    /\ call' = Advance(call)
    /\ UNCHANGED <<creds, nb, ACCESS_TOKEN, session, constructed, status_in, outcome>>

\* the page's records are exhausted: people.py:295 (get_people_page, 280-286)
people_iter_fetch ==
    /\ call.pc = "run" /\ call.method = "get_people_iter"
    /\ \E resp \in CountedResponses(call.page_no, call.total_pages) :
        Issue(call, "people", TRUE, "GET", "people",
              call.page_no, NoParams, NoBody, resp, "people_next_page")

(* ------------------- nationbuilder.py: the handlers ------------------- *)

\* the values of args.destination_site_slug
Destinations == {None, "dst"}

\* nationbuilder.py:95-104: a new client (its own session, c.hsession), the
\* first test of the while condition (pages is None) and the first page:
\* next_page_url is None, so nb.pages.get_pages(...) is called.
handle_pages ==
    /\ Idle
    /\ \E dest \in Destinations, resp \in LinkResponses :
        LET c == [Begin("pages", "handle_pages") EXCEPT !.dest = dest]
            a == _authorize(NoSession, ACCESS_TOKEN, 0)
            sent == Exchange([c EXCEPT !.hsession = a.session],
                             Request("GET", "basic_pages", 0, "limit", NoBody,
                                     a.session),
                             resp)
            e == _check_response(resp.status_code)
        IN  call' = IF a.raised # None THEN Raise(c, a.raised)
                    ELSE IF e # None THEN Raise(sent, e)
                    ELSE [sent EXCEPT !.page = resp.results]
    /\ UNCHANGED <<creds, nb, ACCESS_TOKEN, session, constructed, status_in, outcome>>

\* nationbuilder.py:105-113: the copy of the page's records.  The inner
\* loop breaks after its first record (line 110) and the while loop after
\* its first iteration (line 111), whatever pages["next"] is; then the
\* handler returns `pages`.  c.items are the records given to create_page,
\* which never raises (pages.py:45-48).
handle_pages_copy ==
    /\ call.pc = "run" /\ call.method = "handle_pages"
    /\ IF call.dest # None /\ call.page # <<>>
       THEN \E resp \in SimpleResponses :
              call' = Return(
                  [Exchange(call,
                            Request("POST", "basic_pages", 0, NoParams,
                                    Json("basic_page", 1), call.hsession),
                            resp)
                   EXCEPT !.items = Append(@, call.page[1])],
                  "json")
       ELSE call' = Return(call, "json")
    /\ UNCHANGED <<creds, nb, ACCESS_TOKEN, session, constructed, status_in, outcome>>

\* nationbuilder.py:116-125: get_blog_posts(site_slug=...) is called without
\* its required blog_id (blog.py:23): a TypeError, before any request
handle_blog_posts ==
    /\ Idle
    /\ \E dest \in Destinations :
        call' = Raise([Begin("blog_posts", "handle_blog_posts")
                       EXCEPT !.dest = dest], "TypeError")
    /\ UNCHANGED <<creds, nb, ACCESS_TOKEN, session, constructed, status_in, outcome>>

(* ---------------- nationbuilder.py: building the client --------------- *)

\* nationbuilder.py:47-54 with nb_api.py:64-76: every module's __init__
\* joins the slug into BASE_URL, a TypeError when the slug is None
NationBuilder(slug, api_key) ==
    IF slug = None THEN "TypeError" ELSE "client"

\* nationbuilder.py:57-80: slug and key are None unless the file has a
\* `slug:` and an `api_key:` line; without both the factory returns None
from_file(slug, key) ==
    IF slug # None /\ key # None THEN NationBuilder(slug, key) ELSE None

\* nationbuilder.py:83-86: os.getenv gives None for an unset variable
get_nb_client_from_environment_variables(NATION_SLUG, API_TOKEN) ==
    NationBuilder(NATION_SLUG, API_TOKEN)

\* the credentials a client is built from
Credentials ==
    [origin : {"env", "file"}, slug : {None, "slug"}, api_key : Tokens]

\* the client the caller holds
Build(c) ==
    IF c.origin = "file"
    THEN from_file(c.slug, c.api_key)
    ELSE get_nb_client_from_environment_variables(c.slug, c.api_key)

(* ------------------------- the specification -------------------------- *)

Init ==
    /\ creds \in Credentials
    /\ nb = Build(creds)
    /\ ACCESS_TOKEN = IF nb = "client" THEN creds.api_key ELSE None
    /\ session = [m \in Modules |-> NoSession]
    /\ constructed = [m \in Modules |-> 0]
    /\ call = Call0
    /\ status_in = 0
    /\ outcome = None

Next ==
    \/ get_response_from_authenticated_call
    \/ get_sites
    \/ get_pages
    \/ get_next_pages
    \/ create_page
    \/ get_blogs
    \/ create_blog
    \/ get_blog_posts
    \/ get_next_blog_posts
    \/ create_blog_post
    \/ get_person
    \/ create_person
    \/ match_person
    \/ get_person_by_email
    \/ delete_person
    \/ me
    \/ search
    \/ search_next_page
    \/ get_nearby
    \/ get_nearby_next_page
    \/ get_people_iter
    \/ people_iter_first
    \/ people_iter_next
    \/ people_iter_fetch
    \/ handle_pages
    \/ handle_pages_copy
    \/ handle_blog_posts

Spec == Init /\ [][Next]_vars

(* ---------- the validator applied to every status code ---------------- *)

StatusCodes == MinStatus..MaxStatus

InitValidate ==
    /\ creds = [origin |-> "env", slug |-> "slug", api_key |-> "T"]
    /\ nb = "client"
    /\ ACCESS_TOKEN = "T"
    /\ session = [m \in Modules |-> NoSession]
    /\ constructed = [m \in Modules |-> 0]
    /\ call = Call0
    /\ status_in \in StatusCodes
    /\ outcome = "pending"

\* self._check_response(response, ...) on a response with status status_in
Validate ==
    /\ outcome = "pending"
    /\ outcome' = _check_response(status_in)
    /\ UNCHANGED <<creds, nb, ACCESS_TOKEN, session, constructed, call, status_in>>

SpecValidate == InitValidate /\ [][Validate]_vars


(* ------------------------------ properties ---------------------------- *)

\* the exceptions _raise_error can raise
ApiErrors == {"NBNotFoundError", "NBBadRequestError", "NBResponseError"}
\* a status code outside 200..299
NonSuccess(s) == s < 200 \/ s > 299
\* the last response the call received
LastResponse == call.responses[Len(call.responses)]
\* the call is over (returned, raised, or the generator is exhausted)
Finished == call.pc \in {"returned", "raised", "done"}
\* the page numbers of the requests, in the order they were issued
PagesRequested == [k \in 1..Len(call.requests) |-> call.requests[k].page]
\* the results of the given responses, concatenated in response order
RECURSIVE ConcatResults(_)
ConcatResults(rs) ==
    IF rs = <<>> THEN <<>> ELSE Head(rs).results \o ConcatResults(Tail(rs))
\* the operations that use counted pagination
CountedMethods == {"search", "get_nearby", "get_people_iter"}

\* C1 (checked under SpecValidate): _check_response classifies by status
\* code alone: it returns normally exactly for 200..299, raises
\* NBNotFoundError exactly for 404, NBBadRequestError exactly for 400, and
\* NBResponseError for every other status outside 200..299.
C1_StatusClassification ==
    outcome # "pending" =>
        /\ (outcome = None) <=> (200 <= status_in /\ status_in <= 299)
        /\ (outcome = "NBNotFoundError") <=> (status_in = 404)
        /\ (outcome = "NBBadRequestError") <=> (status_in = 400)
        /\ (outcome = "NBResponseError") <=>
               (NonSuccess(status_in) /\ status_in \notin {400, 404})

\* the validator has raised the generic error for a status that is neither
\* 2xx, 400 nor 404
C1_Witness == outcome = "NBResponseError" /\ status_in = 503

\* C2: a method that received a non-2xx response (other than the email
\* lookup's 400 no_matches) ends by raising a typed API error; it never
\* returns normally.
C2_NeverSwallows ==
    (/\ Finished
     /\ call.responses # <<>>
     /\ NonSuccess(LastResponse.status_code)
     /\ ~(/\ call.method = "get_person_by_email"
          /\ LastResponse.status_code = 400
          /\ LastResponse.code = "no_matches"))
    => (call.pc = "raised" /\ call.raised \in ApiErrors)

\* C3: on each client instance a session is constructed at most once: an
\* _authorize entered with no session and a token present establishes it,
\* an _authorize entered with a session is a no-op, and an established
\* session is never replaced or reset.
C3_SessionOnce ==
    [][\A m \in Modules :
          /\ constructed'[m] <= 1
          /\ session[m] # NoSession =>
                (session'[m] = session[m] /\ constructed'[m] = constructed[m])
          /\ (session[m] = NoSession /\ session'[m] # NoSession) =>
                (/\ ACCESS_TOKEN # None
                 /\ call'.module = m /\ call'.pre = NoSession
                 /\ constructed'[m] = 1)
          /\ (/\ session[m] = NoSession /\ ACCESS_TOKEN # None
              /\ call'.module = m /\ call'.pre = NoSession)
             => session'[m] # NoSession
      ]_vars

\* a method has entered _authorize on an instance whose session was
\* already established, and the session is the one it found
C3_Witness ==
    /\ call.module \in Modules
    /\ call.pre \notin {-1, NoSession}
    /\ session[call.module] = call.pre
    /\ constructed[call.module] = 1

\* C4: no public request-issuing method reaches its HTTP call while the
\* session is absent (self.session.get on None is an AttributeError).
C4_AuthorizedBeforeRequest == call.raised # "AttributeError"

\* C5: in get_person_by_email a 400 response with code no_matches makes the
\* method return None without raising, and a 400 response with any other
\* code raises NBBadRequestError.
C5_EmailNoMatches ==
    (/\ call.method = "get_person_by_email"
     /\ call.responses # <<>>
     /\ LastResponse.status_code = 400)
    => IF LastResponse.code = "no_matches"
       THEN call.pc = "returned" /\ call.ret = None /\ call.raised = None
       ELSE call.pc = "raised" /\ call.raised = "NBBadRequestError"

\* the email lookup has returned None for a 400 no_matches response
C5_Witness ==
    /\ call.method = "get_person_by_email"
    /\ call.responses # <<>>
    /\ LastResponse.status_code = 400
    /\ LastResponse.code = "no_matches"
    /\ call.pc = "returned"

\* C6: when search returns and its first page reported total_pages = N
\* (N >= 1), the pages requested are exactly 1, 2, ..., N, each once and in
\* increasing order, and the list returned is the concatenation of the
\* pages' results in page order.
C6_SearchAllPages ==
    (/\ call.method = "search" /\ call.pc = "returned"
     /\ call.responses[1].total_pages >= 1)
    => /\ PagesRequested = [k \in 1..call.responses[1].total_pages |-> k]
       /\ \A k \in 1..Len(call.requests) :
             call.requests[k].path = "people/search"
       /\ call.ret = "list"
       /\ call.items = ConcatResults(call.responses)

\* search has returned 3 * 2 records from three pages of two records each
C6_Witness ==
    /\ call.method = "search" /\ call.pc = "returned"
    /\ call.responses[1].total_pages = 3
    /\ \A k \in 1..Len(call.responses) : Len(call.responses[k].results) = 2
    /\ Len(call.items) = 6

\* C7 as stated: in a counted pagination with total_pages >= 3, if page 2's
\* results is empty then no request for page 3 is issued and the sequence
\* returned holds only page 1's records.
C7_ShortCircuit ==
    (/\ call.method \in CountedMethods
     /\ Len(call.responses) >= 2
     /\ call.responses[1].total_pages >= 3
     /\ ~NonSuccess(call.responses[2].status_code)
     /\ call.responses[2].results = <<>>)
    => /\ \A k \in 1..Len(call.requests) : call.requests[k].page # 3
       /\ call.pc = "returned" => call.items = call.responses[1].results

\* C7 as amended: an empty page 2 does not stop a counted pagination.  When
\* the operation completes (search and get_nearby return, get_people_iter
\* is exhausted) with total_pages = N >= 3 and an empty page 2, every page
\* 1..N, page 3 included, has been requested exactly once, in increasing
\* order; and what search returns is the concatenation of the results of
\* all N pages.
C7_NoShortCircuit ==
    (/\ call.method \in CountedMethods
     /\ call.pc \in {"returned", "done"}
     /\ Len(call.responses) >= 2
     /\ call.responses[1].total_pages >= 3
     /\ call.responses[2].results = <<>>)
    => /\ PagesRequested = [k \in 1..call.responses[1].total_pages |-> k]
       /\ call.method = "search" =>
             call.items = ConcatResults(call.responses)

\* search has returned after an empty page 2 and a non-empty page 3
C7_Witness ==
    /\ call.method = "search" /\ call.pc = "returned"
    /\ call.responses[1].total_pages = 3
    /\ call.responses[2].results = <<>>
    /\ call.responses[3].results # <<>>
    /\ call.requests[3].page = 3

\* C8: when get_people_iter is consumed to the end and its first page
\* reported total_pages = N (N >= 1), the records it has yielded are those
\* of pages 1..N, each once, in page order and in-page order.
C8_IterYieldsAll ==
    (/\ call.method = "get_people_iter" /\ call.pc = "done"
     /\ call.responses[1].total_pages >= 1)
    => /\ PagesRequested = [k \in 1..call.responses[1].total_pages |-> k]
       /\ call.items = ConcatResults(call.responses)

\* C9: when handle_pages returns, every response that carried a `next` URL
\* was followed by a request for that URL, and every record of every page
\* received was processed, in response order.
C9_FollowsNext ==
    (call.method = "handle_pages" /\ call.pc = "returned" /\ call.dest # None)
    => /\ \A k \in 1..Len(call.requests) :
             (call.requests[k].verb = "GET" /\ call.responses[k].next # None)
             => \E j \in (k + 1)..Len(call.requests) :
                   /\ call.requests[j].verb = "GET"
                   /\ call.requests[j].path = "next_url"
       /\ call.items = ConcatResults(call.responses)

\* C10: when get_nearby returns and its first page reported total_pages = N
\* (N >= 1), the list returned is the concatenation of the results of
\* pages 1..N in page order, so each element of it is a record.
C10_NearbyRecords ==
    (/\ call.method = "get_nearby" /\ call.pc = "returned"
     /\ call.responses[1].total_pages >= 1)
    => /\ call.items = ConcatResults(call.responses)
       /\ \A i \in 1..Len(call.items) : call.items[i].kind = "record"

\* the request that drew the last response of the call
LastRequest == call.requests[Len(call.requests)]

\* C11: every error _raise_error has raised carries the headers and the
\* text of the response that caused it and the URL of the request that was
\* issued for it, whatever the method and the status.
C11_ErrorPayload ==
    (call.pc = "raised" /\ call.raised \in ErrorClasses)
    => /\ call.err.header = LastResponse.headers
       /\ call.err.body = LastResponse.text
       /\ call.err.url = PreparedUrl(LastRequest)

\* the credentials lack the slug or the key (an unset variable, a file
\* without the line)
Incomplete == creds.slug = None \/ creds.api_key = None
\* the call entered _authorize on its module's instance
Authorizing == call.pre # -1

CreationMethods ==
    {"create_person", "create_page", "create_blog", "create_blog_post"}
\* the body a creation method is to send for the payload it was given:
\* create_person the person_body as it is, the others the payload under
\* the key of the resource
ExpectedBody(method, payload) ==
    CASE method = "create_person" -> Json(None, payload)
      [] method = "create_page" -> Json("basic_page", payload)
      [] method = "create_blog" -> Json("blog", payload)
      [] method = "create_blog_post" -> Json("blog_post", payload)

\* C13: the request of every creation method is a POST whose body carries
\* the payload the caller gave: person_body as given for create_person,
\* the payload under the resource's key for create_page, create_blog and
\* create_blog_post.
C13_CreationBody ==
    (call.method \in CreationMethods /\ call.requests # <<>>)
    => /\ call.requests[1].verb = "POST"
       /\ call.requests[1].body = ExpectedBody(call.method, call.arg)

\* the sessions constructed so far by the modules of the one NationBuilder
SessionsConstructed ==
    constructed["blog_posts"] + constructed["pages"] + constructed["people"]

\* C14: the modules of one NationBuilder construct at most one session
\* between them, whatever calls have been made, and the modules that hold
\* a session hold the same one.
C14_OneSession ==
    /\ SessionsConstructed <= 1
    /\ Cardinality({m \in Modules : session[m] # NoSession}) <= 1

\* the records of the pages received before the last one requested
YieldedBefore ==
    ConcatResults(SubSeq(call.responses, 1, Len(call.responses) - 1))

\* C15: get_people_iter is lazy.  Creating the generator requests nothing;
\* the pages are requested one at a time in order 1, 2, ...; the generator
\* goes for a page only when every record of the page it holds has been
\* yielded; and once page k+1 has been requested every record of pages 1..k
\* has been yielded, in order, so a consumer that stops never causes a
\* request beyond the page after the last one it consumed.
C15_Lazy ==
    call.method = "get_people_iter" =>
        /\ call.pc = "created" => call.requests = <<>>
        /\ PagesRequested = [k \in 1..Len(call.requests) |-> k]
        /\ Len(call.responses) = Len(call.requests)
        /\ call.pc = "run" => call.idx = Len(call.page)
        /\ Len(call.requests) >= 2 =>
              /\ Len(call.items) >= Len(YieldedBefore)
              /\ SubSeq(call.items, 1, Len(YieldedBefore)) = YieldedBefore

\* the consumer has taken every record of a first page that had some, page
\* 2 has been requested for it, and it can stop here
C15_Witness ==
    /\ call.method = "get_people_iter" /\ call.pc = "suspended"
    /\ Len(call.requests) = 2
    /\ call.responses[1].results # <<>>
    /\ call.responses[2].results # <<>>
    /\ Len(call.items) = Len(call.responses[1].results) + 1

=============================================================================
